---- MODULE Spec2Model ----
(***************************************************************************)
(* A model of the VCCE TCP server (src/index.js, src/openai.js): the       *)
(* length-prefixed frame reassembly in onClient's 'data' handler, the      *)
(* command dispatcher handleCommand, the exec child-process event          *)
(* listeners, the AI commands with the process-wide state they share       *)
(* (API key, context cache, patch registry), and the walk of               *)
(* readProjectFiles.                                                       *)
(*                                                                         *)
(* Three specifications share the actions: Spec (file, exec and key        *)
(* requests, chunks cut at every byte), SpecAI (the AI commands, one frame *)
(* per chunk) and SpecWalk (readProjectFiles alone).                       *)
(*                                                                         *)
(* Node runs one callback at a time.  An action of this model is one       *)
(* callback of the event loop together with the promise continuations it   *)
(* makes runnable: a 'data' event runs the handler's loop up to the first  *)
(* await of real I/O; the completion of that I/O resumes the handler and   *)
(* runs the loop on.  An await of an already settled promise (a handler    *)
(* that returned without I/O) resumes before any other event, so it does   *)
(* not end the action.                                                     *)
(***************************************************************************)
EXTENDS Integers, Sequences, FiniteSets, TLC

\* ------------------------------------------------------------------ bounds

\* Frames sent by the clients, over all connections together.
MaxFrames == 2

\* stdout/stderr chunks the spawned processes produce, all together.
MaxOut == 1

\* Frames sent by the clients in the AI scenarios, over all connections.
MaxAiFrames == 3

\* Times the files of the project change on disk.
MaxChanges == 1

\* Project trees walked by readProjectFiles: entries of a tree, bytes of a
\* file's content, bytes of a relative path, and the byte budget.
MaxEntries == 2
MaxFileSize == 2
MaxRelLen == 2
MaxLimit == 2

\* The connections of the model.
Conns == {"A", "B"}

\* ------------------------------------------------------------ wire format

\* Size of the length prefix: buffer.length >= 4, slice(4, 4 + len).
PrefixLen == 4

\* One byte of the little-endian prefix counts 256 times the previous one.
ByteBase == 256

\* buffer.readUInt32LE(0)
readUInt32LE(buf) ==
    buf[1] + ByteBase * buf[2] + ByteBase * ByteBase * buf[3]
           + ByteBase * ByteBase * ByteBase * buf[4]

\* The 4-byte unsigned little-endian encoding written by buf.writeUInt32LE.
writeUInt32LE(n) ==
    << n % ByteBase,
       (n \div ByteBase) % ByteBase,
       (n \div (ByteBase * ByteBase)) % ByteBase,
       (n \div (ByteBase * ByteBase * ByteBase)) % ByteBase >>

\* A frame: the prefix followed by the payload bytes (encode, as the client
\* of the protocol applies it to its requests).
encodeFrame(payload) == writeUInt32LE(Len(payload)) \o payload

\* ---------------------------------------------------------------- payloads
\* The JSON text of a request is modelled by two bytes, the id and a byte
\* that stands for the text of the cmd and args members; the text "null" by
\* one byte; every other byte string is not JSON.

Undef == "undefined"
Null == "null"

\* The id of the fatal response, {id: null}.
NullId == 0

NullByte == 110

BadByte == 123

BodyBytes == 1 .. 6

\* The bodies of the AI requests (and setApiKey with a key, body 6).
AiBodyBytes == 6 .. 13

\* const { projectPath, messages = [], newSession } = args;
\* const { patchId, apply } = args;  an absent flag is falsy.
AiArgs(projectPath, newSession, patchId, apply) ==
    [projectPath |-> projectPath, newSession |-> newSession,
     patchId |-> patchId, apply |-> apply]

Args(path, command, cwd, key) ==
    [path |-> path, command |-> command, cwd |-> cwd, key |-> key]

\* crypto.randomUUID(): the n-th identifier it returns; no two are equal.
UUIDs == << "uuid-1", "uuid-2", "uuid-3", "uuid-4", "uuid-5", "uuid-6" >>

\* The cmd and args members a body byte stands for.
BodyOf(b) ==
    CASE b = 1 -> [cmd |-> "readFile",  args |-> Args("f", Undef, Undef, Undef)]
      [] b = 2 -> [cmd |-> "exec",      args |-> Args(Undef, "sh", Undef, Undef)]
      [] b = 3 -> [cmd |-> "exec",      args |-> Args(Undef, Undef, Undef, Undef)]
      [] b = 4 -> [cmd |-> "exec",      args |-> Args(Undef, "sh", "nodir", Undef)]
      [] b = 5 -> [cmd |-> "bogus",     args |-> Args(Undef, Undef, Undef, Undef)]
      [] b = 6 -> [cmd |-> "setApiKey", args |-> Args(Undef, Undef, Undef, "k")]
      [] b = 7 -> [cmd |-> "aiChat",    args |-> AiArgs("P", FALSE, Undef, FALSE)]
      [] b = 8 -> [cmd |-> "aiChat",    args |-> AiArgs("P", TRUE, Undef, FALSE)]
      [] b = 9 -> [cmd |-> "aiApprove", args |-> AiArgs(Undef, FALSE, UUIDs[1], FALSE)]
      [] b = 10 -> [cmd |-> "aiApprove", args |-> AiArgs(Undef, FALSE, UUIDs[1], TRUE)]
      [] b = 11 -> [cmd |-> "setApiKey", args |-> Args(Undef, Undef, Undef, Undef)]
      [] b = 12 -> [cmd |-> "setApiKey", args |-> Args(Undef, Undef, Undef, "")]
      [] b = 13 -> [cmd |-> "aiStatus",  args |-> Args(Undef, Undef, Undef, Undef)]

NoArgs == Args(Undef, Undef, Undef, Undef)

\* JSON.parse(jsonBuf.toString('utf8')): a request object, the value null, or
\* a SyntaxError thrown.
JSONparse(jsonBuf) ==
    IF /\ Len(jsonBuf) = 2
       /\ jsonBuf[1] \in 1 .. (ByteBase - 1)
       /\ jsonBuf[2] \in BodyBytes \cup AiBodyBytes
    THEN [type |-> "object", id |-> jsonBuf[1], cmd |-> BodyOf(jsonBuf[2]).cmd,
          args |-> BodyOf(jsonBuf[2]).args]
    ELSE IF jsonBuf = << NullByte >>
    THEN [type |-> Null, id |-> NullId, cmd |-> Undef, args |-> NoArgs]
    ELSE [type |-> "SyntaxError", id |-> NullId, cmd |-> Undef, args |-> NoArgs]

\* The payloads a client sends as its i-th frame: a request with id i (ids
\* are caller-assigned and unique per connection), the text null, or bytes
\* that are not JSON.
Payloads(i) == { << i, b >> : b \in BodyBytes } \cup { << NullByte >>, << BadByte >> }

\* The payloads of an AI scenario: the i-th frame is a request with id i and
\* a body of the scenario's menu.
AiPayloads(i, menu) == { << i, b >> : b \in menu }

\* ------------------------------------------------------------------- state

VARIABLES
    sent,            \* per connection: the payloads of the frames the client sends
    wire,            \* per connection: bytes sent and not yet delivered as a chunk
    buffer,          \* per connection: onClient's buffer
    sock,            \* per connection: "open", "ended" (socket.end called) or "destroyed"
    out,             \* per connection: the messages written to the socket, in order
    pending,         \* per connection: handler invocations suspended at await handleCommand
    children,        \* the child processes spawned by exec
    apiKey,          \* openai.js: apiKey
    sessions,        \* index.js: sessions
    pendingPatches,  \* index.js: pendingPatches
    serverUp,        \* FALSE once an uncaught exception has ended the process
    dispatched,      \* per connection: the calls of handleCommand, in order
    badSeen,         \* per connection: frames whose payload failed JSON.parse
    cuts,            \* where chunk boundaries have fallen inside a frame (if observed)
    burst,           \* a chunk has left several complete frames in a buffer (if observed)
    disk,            \* the version of the files of project "P" on disk
    issued,          \* the identifiers crypto.randomUUID has returned so far
    log,             \* what the AI handlers did, in the order they did it
    walk             \* a call of readProjectFiles, step by step

vars == << sent, wire, buffer, sock, out, pending, children, apiKey, sessions,
           pendingPatches, serverUp, dispatched, badSeen, cuts, burst, disk,
           issued, log, walk >>

\* The part of the state the handlers and the loop work on.
World ==
    [ buffer |-> buffer, sock |-> sock, out |-> out, pending |-> pending,
      children |-> children, apiKey |-> apiKey, sessions |-> sessions,
      pendingPatches |-> pendingPatches, serverUp |-> serverUp,
      dispatched |-> dispatched, badSeen |-> badSeen, disk |-> disk,
      issued |-> issued, log |-> log ]

EmptyMap == [x \in {} |-> x]

\* ---------------------------------------------------------------- messages

\* A Response as handleCommand returns it, before resp.id is set.
Result(ok, data, started) == [ok |-> ok, data |-> data, started |-> started]

\* The value of `resp` while the handler has not returned.
NoResult == Result(FALSE, "<awaiting>", FALSE)

\* resp.id = req.id, as an object given to encode.
Response(id, res) ==
    [id |-> id, event |-> "response", ok |-> res.ok, data |-> res.data,
     started |-> res.started, code |-> 0]

\* { id: null, ok: false, data: 'Invalid JSON' }
FatalResponse == Response(NullId, Result(FALSE, "Invalid JSON", FALSE))

\* { id: execId, event: 'stdout' | 'stderr', data }
DataEvent(id, ev) ==
    [id |-> id, event |-> ev, ok |-> FALSE, data |-> "chunk", started |-> FALSE,
     code |-> 0]

\* Mutant of ExitEvent: the exit event drops the code of the 'close' event.
ExitEventWithoutCode(id, code) ==
    [id |-> id, event |-> "exit", ok |-> FALSE, data |-> Undef, started |-> FALSE,
     code |-> 0]

\* { id: execId, event: 'exit', code }
ExitEvent(id, code) ==
    [id |-> id, event |-> "exit", ok |-> FALSE, data |-> Undef, started |-> FALSE,
     code |-> code]

\* ------------------------------------------------------------------ socket

\* socket.write(encode(msg)): the message goes out on an open socket; after
\* socket.end() the write fails with write-after-end, nothing is written and
\* the socket is destroyed (its 'error' listener only logs).
SocketWrite(w, c, msg) ==
    IF w.sock[c] = "open"
    THEN [w EXCEPT !.out[c] = Append(@, msg)]
    ELSE [w EXCEPT !.sock[c] = "destroyed"]

\* socket.end(encode(msg)): write the message and half-close the socket.
SocketEnd(w, c, msg) ==
    IF w.sock[c] = "open"
    THEN [w EXCEPT !.out[c] = Append(@, msg), !.sock[c] = "ended"]
    ELSE [w EXCEPT !.sock[c] = "destroyed"]

\* ---------------------------------------------------------- handleCommand

\* Mutant of AwaitsIO: the exec case awaits before it returns its
\* acknowledgment, so that events of the child can run first.
AwaitsIOAlsoExec(cmd) == cmd \in {"readFile", "exec"}

\* The commands whose handler awaits file-system I/O before it returns.
AwaitsIO(cmd) == cmd \in {"readFile"}

\* Mutant of NoCommand: only the empty string is refused, a missing command
\* is not.
NoCommandOnlyEmpty(args) == args.command = ""

\* if (!command)
NoCommand(args) == args.command \in {Undef, ""}

\* Mutant of NoKey: no key is refused.
NoKeyNever(args) == FALSE

\* if (!key)
NoKey(args) == args.key \in {Undef, ""}

\* spawn(command, { cwd, shell: true }): the child process, with the stdout,
\* stderr and 'close' listeners of the exec case attached.  A working
\* directory that does not exist makes the spawn fail; Node reports that by
\* an 'error' event of the child, later.
spawn(c, req) ==
    [conn |-> c, id |-> req.id,
     state |-> IF req.args.cwd = "nodir" THEN "spawnfail" ELSE "running",
     emitted |-> 0, code |-> 0]

\* Mutant of UnknownCommand: the default case reports success.
UnknownCommandOk(w, req) ==
    [w |-> w, res |-> Result(TRUE, "Unknown command", FALSE), await |-> FALSE,
     threw |-> FALSE]

\* default: return { ok: false, data: `Unknown command ${cmd}` }
UnknownCommand(w, req) ==
    [w |-> w, res |-> Result(FALSE, "Unknown command", FALSE), await |-> FALSE,
     threw |-> FALSE]

\* ------------------------------------------------------------ AI commands

\* hasApiKey() of openai.js: !!apiKey
hasApiKey(w) == w.apiKey \notin {Null, Undef, ""}

\* The text readProjectFiles aggregates from the files of a version of the
\* project; different versions give different texts.
Texts == << "text-0", "text-1", "text-2", "text-3" >>

\* await readProjectFiles(projectPath), when it succeeds: the text of the
\* files as they are on disk when the read completes.
readProjectFiles(w, projectPath) == Texts[w.disk + 1]

\* The replies of openaiChat: the reply of the service without and with a
\* fenced patch block, and the two warnings chat() returns instead of a
\* reply.
PlainReply == "answer"
PatchReply == "answer with a fenced patch block"
NoKeyReply == "OPENAI_API_KEY is not configured on the server."
ServiceErrorReply == "An error occurred while communicating with OpenAI."

\* What chat() returns for the outcome of openai.chat.completions.create;
\* its catch block turns a thrown error into a warning string.
ReplyOf(outcome) ==
    CASE outcome = "reply" -> PlainReply
      [] outcome = "patch" -> PatchReply
      [] outcome = "error" -> ServiceErrorReply

\* reply.match(patchRegex)
MatchesPatch(reply) == reply = PatchReply

\* Map.prototype.set and Map.prototype.delete
MapSet(m, k, v) == (k :> v) @@ m
MapDelete(m, k) == [x \in DOMAIN m \ {k} |-> m[x]]

\* if (!projectPath)
NoProjectPath(args) == args.projectPath \in {Undef, ""}

\* Mutant of Rebuilds: the cache is never reused.
RebuildsAlways(w, args) == TRUE

\* if (newSession || !sessions.has(projectPath))
Rebuilds(w, args) == args.newSession \/ args.projectPath \notin DOMAIN w.sessions

\* The rest of the aiChat case once openaiChat has returned its reply: a
\* patch block in the reply is registered under a fresh identifier.
ChatReturns(w, req, reply) ==
    IF MatchesPatch(reply)
    THEN LET patchId == UUIDs[w.issued + 1] IN
         [w |-> [w EXCEPT !.issued = @ + 1,
                          !.pendingPatches =
                              MapSet(@, patchId, [projectPath |-> req.args.projectPath,
                                                  diff |-> "d"])],
          res |-> Result(TRUE, reply, FALSE), await |-> FALSE, threw |-> FALSE]
    ELSE [w |-> w, res |-> Result(TRUE, reply, FALSE), await |-> FALSE,
          threw |-> FALSE]

\* const reply = await openaiChat(fullMessages), with contextText in the
\* system message.  Without an API key chat() returns its warning at once;
\* with one the handler is suspended until the service has answered.
openaiChat(w, c, req, contextText, rebuilt) ==
    LET w1 == [w EXCEPT !.log = Append(@,
                  [kind |-> "chat", conn |-> c, id |-> req.id,
                   newSession |-> req.args.newSession, rebuilt |-> rebuilt,
                   context |-> contextText, disk |-> w.disk])]
    IN IF ~hasApiKey(w1) THEN ChatReturns(w1, req, NoKeyReply)
       ELSE [w |-> w1, res |-> NoResult, await |-> TRUE, threw |-> FALSE,
             stage |-> "chat"]

\* case 'aiChat', up to its first await of I/O.
aiChat(w, c, req) ==
    IF NoProjectPath(req.args)
    THEN [w |-> w, res |-> Result(FALSE, "projectPath is required", FALSE),
          await |-> FALSE, threw |-> FALSE]
    ELSE
      LET w1 == [w EXCEPT !.log = Append(@,
                    [kind |-> "call", conn |-> c, id |-> req.id,
                     newSession |-> req.args.newSession,
                     hadSession |-> req.args.projectPath \in DOMAIN w.sessions,
                     rebuilds |-> Rebuilds(w, req.args)])]
      IN IF Rebuilds(w, req.args)
         THEN [w |-> w1, res |-> NoResult, await |-> TRUE, threw |-> FALSE,
               stage |-> "read"]
         ELSE openaiChat(w1, c, req, w1.sessions[req.args.projectPath].filesText,
                         FALSE)

\* case 'aiStatus'
aiStatus(w, c, req) ==
    [w |-> [w EXCEPT !.log = Append(@, [kind |-> "status", conn |-> c,
                                         hasKey |-> hasApiKey(w)])],
     res |-> Result(TRUE, IF hasApiKey(w) THEN "hasKey:true" ELSE "hasKey:false",
                    FALSE),
     await |-> FALSE, threw |-> FALSE]

\* Mutant of HasPatch: the lookup finds an entry for every identifier.
HasPatchAlways(w, patchId) == TRUE

\* const entry = pendingPatches.get(patchId); if (!entry) ...
HasPatch(w, patchId) == patchId \in DOMAIN w.pendingPatches

\* Mutant of NotImplemented: the failed apply drops the patch.
NotImplementedDrops(w, patchId) ==
    [w |-> [w EXCEPT !.pendingPatches = MapDelete(@, patchId)],
     res |-> Result(FALSE, "Auto-apply not implemented yet", FALSE)]

\* if (apply) { /* TODO */ return { ok: false, data: 'Auto-apply ...' } }
NotImplemented(w, patchId) ==
    [w |-> w, res |-> Result(FALSE, "Auto-apply not implemented yet", FALSE)]

\* Mutant of Discard: the entry is reported discarded and stays registered.
DiscardKeeps(w, patchId) ==
    [w |-> w, res |-> Result(TRUE, "Patch discarded", FALSE)]

\* pendingPatches.delete(patchId); return { ok: true, data: 'Patch discarded' }
Discard(w, patchId) ==
    [w |-> [w EXCEPT !.pendingPatches = MapDelete(@, patchId)],
     res |-> Result(TRUE, "Patch discarded", FALSE)]

\* case 'aiApprove'
aiApprove(w, c, req) ==
    LET patchId == req.args.patchId
        r == IF ~HasPatch(w, patchId)
             THEN [w |-> w, res |-> Result(FALSE, "Unknown patchId", FALSE)]
             ELSE IF req.args.apply THEN NotImplemented(w, patchId)
             ELSE Discard(w, patchId)
        did == [kind |-> "approve", conn |-> c, patchId |-> patchId,
                apply |-> req.args.apply, res |-> r.res,
                before |-> w.pendingPatches, after |-> r.w.pendingPatches,
                written |-> r.w.disk # w.disk]
    IN [w |-> [r.w EXCEPT !.log = Append(@, did)], res |-> r.res,
        await |-> FALSE, threw |-> FALSE]

\* The await a suspended handler is in: file I/O, the read of the project
\* files, or the chat completion.
StageOf(h) == IF "stage" \in DOMAIN h THEN h.stage ELSE "io"

\* The switch of handleCommand, run to the return of the case.  For a case
\* that awaits I/O the Response is not known before the I/O completes.
Switch(w, c, req) ==
    IF req.cmd = "readFile"
    THEN [w |-> w, res |-> NoResult, await |-> FALSE, threw |-> FALSE]
    ELSE IF req.cmd = "exec"
    THEN IF NoCommand(req.args)
         THEN [w |-> w, res |-> Result(FALSE, "No command provided", FALSE),
               await |-> FALSE, threw |-> FALSE]
         ELSE [w |-> [w EXCEPT !.children = @ \cup {spawn(c, req)}],
               res |-> Result(TRUE, Undef, TRUE), await |-> FALSE, threw |-> FALSE]
    ELSE IF req.cmd = "setApiKey"
    THEN IF NoKey(req.args)
         THEN [w |-> w, res |-> Result(FALSE, "key is required", FALSE),
               await |-> FALSE, threw |-> FALSE]
         ELSE [w |-> [w EXCEPT !.apiKey = req.args.key],
               res |-> Result(TRUE, "hasKey", FALSE), await |-> FALSE, threw |-> FALSE]
    ELSE IF req.cmd = "aiChat" THEN aiChat(w, c, req)
    ELSE IF req.cmd = "aiStatus" THEN aiStatus(w, c, req)
    ELSE IF req.cmd = "aiApprove" THEN aiApprove(w, c, req)
    ELSE UnknownCommand(w, req)

\* handleCommand(req, socket) up to its first await of I/O, or to its return.
\*   w      the state it leaves
\*   res    the Response it returns (NoResult while the I/O decides it)
\*   await  it is suspended in an await of I/O
\*   threw  it threw outside its try block: the destructuring of req in its
\*          first statement, which fails for req = null
handleCommand(w, c, req) ==
    IF req.type = Null
    THEN [w |-> w, res |-> NoResult, await |-> FALSE, threw |-> TRUE]
    ELSE [Switch(w, c, req) EXCEPT !.await = @ \/ AwaitsIO(req.cmd)]

\* What the awaited I/O of a suspended handler makes it return: the value, or
\* the caught error as { ok: false, data: e.message }.
Completed(p, outcome) ==
    IF p.res # NoResult THEN p.res
    ELSE IF outcome = "ok" THEN Result(TRUE, "content", FALSE)
    ELSE Result(FALSE, "ENOENT", FALSE)

\* ------------------------------------------------------- the 'data' handler

\* The process-wide AI state.
Shared(w) == << w.apiKey, w.sessions, w.pendingPatches, w.disk >>

\* Mutant of Concat: the chunk replaces the buffered bytes.
ConcatDropsBuffered(buf, chunk) == chunk

\* buffer = Buffer.concat([buffer, chunk])
Concat(buf, chunk) == buf \o chunk

\* Mutant of BufferOf: one buffer at module scope, shared by every socket.
BufferOfModule(c) == "A"

\* let buffer = Buffer.alloc(0) inside onClient: each socket has its own.
BufferOf(c) == c

RECURSIVE RunLoop(_, _)

\* Mutant of NextIteration: one frame per 'data' event, an `if` for the `while`.
NextIterationNone(w, c) == w

\* The loop's next iteration, after a response was written.
NextIteration(w, c) == RunLoop(w, c)

\* Mutant of Malformed: the fatal response is written and the socket stays
\* open.
MalformedKeepsOpen(w, c) ==
    SocketWrite([w EXCEPT !.badSeen[c] = @ + 1], c, FatalResponse)

\* Malformed JSON: socket.end(encode({ id: null, ... })); return
Malformed(w, c) == SocketEnd([w EXCEPT !.badSeen[c] = @ + 1], c, FatalResponse)

\* while (buffer.length >= 4) { ... }: takes complete frames off the buffer
\* and dispatches them, until the buffer holds no complete frame, a payload
\* is not JSON, or a handler is suspended or throws.
RunLoop(w, c) ==
    LET buf == w.buffer[BufferOf(c)] IN
    IF Len(buf) < PrefixLen THEN w
    ELSE
      LET len == readUInt32LE(buf) IN
      IF Len(buf) < PrefixLen + len THEN w
      ELSE
        LET jsonBuf == SubSeq(buf, PrefixLen + 1, PrefixLen + len)
            w1 == [w EXCEPT !.buffer[BufferOf(c)] =
                                SubSeq(buf, PrefixLen + len + 1, Len(buf))]
            req == JSONparse(jsonBuf)
        IN
        IF req.type = "SyntaxError" THEN Malformed(w1, c)
        ELSE
          LET h == handleCommand(w1, c, req)
              written == IF h.await \/ h.threw THEN h.w
                         ELSE SocketWrite(h.w, c, Response(req.id, h.res))
              entry == [req |-> req,
                        changed |-> Shared(h.w) # Shared(w1),
                        closed |-> w1.sock[c] = "open" /\ written.sock[c] # "open"]
              w2 == [written EXCEPT !.dispatched[c] = Append(@, entry)]
          IN
          IF h.threw THEN [w2 EXCEPT !.serverUp = FALSE]
          ELSE IF h.await
          THEN [w2 EXCEPT !.pending[c] =
                              @ \cup {[req |-> req, res |-> h.res, stage |-> StageOf(h)]}]
          ELSE NextIteration(w2, c)

\* ----------------------------------------------------------------- actions

Apply(w) ==
    /\ buffer' = w.buffer
    /\ sock' = w.sock
    /\ out' = w.out
    /\ pending' = w.pending
    /\ children' = w.children
    /\ apiKey' = w.apiKey
    /\ sessions' = w.sessions
    /\ pendingPatches' = w.pendingPatches
    /\ serverUp' = w.serverUp
    /\ dispatched' = w.dispatched
    /\ badSeen' = w.badSeen
    /\ disk' = w.disk
    /\ issued' = w.issued
    /\ log' = w.log

\* The bytes of a stream of frames.
RECURSIVE Bytes(_)
Bytes(s) == IF s = << >> THEN << >> ELSE encodeFrame(Head(s)) \o Bytes(Tail(s))

\* Where a chunk boundary at byte offset off of the stream s of frames falls:
\* between two frames, inside a length prefix or inside a payload.
RECURSIVE CutClass(_, _)
CutClass(s, off) ==
    IF s = << >> \/ off = 0 THEN "boundary"
    ELSE IF off >= PrefixLen + Len(Head(s))
    THEN CutClass(Tail(s), off - (PrefixLen + Len(Head(s))))
    ELSE IF off < PrefixLen THEN "prefix"
    ELSE "payload"

\* The complete frames at the front of a buffer.
RECURSIVE CountFrames(_)
CountFrames(buf) ==
    IF Len(buf) < PrefixLen \/ Len(buf) < PrefixLen + readUInt32LE(buf) THEN 0
    ELSE 1 + CountFrames(SubSeq(buf, PrefixLen + readUInt32LE(buf) + 1, Len(buf)))

\* The chunking of c's stream is observed (in cuts and burst) when c is the
\* only connection in use and every frame of its stream is a request that
\* spawns no process.
Observed(c) ==
    /\ \A d \in Conns \ {c} : sent[d] = << >>
    /\ \A i \in 1 .. Len(sent[c]) :
           /\ JSONparse(sent[c][i]).type = "object"
           /\ JSONparse(sent[c][i]).cmd # "exec"

\* socket.on('data', async chunk => ...): the next k bytes of the stream
\* arrive as one chunk.  A socket still delivers data after socket.end(),
\* which closes only its writable side; a destroyed socket delivers none.
DataArrives(c, k) ==
    /\ serverUp
    /\ sock[c] # "destroyed"
    /\ k \in 1 .. Len(wire[c])
    /\ wire' = [wire EXCEPT ![c] = SubSeq(@, k + 1, Len(@))]
    /\ Apply(RunLoop([World EXCEPT !.buffer[BufferOf(c)] =
                                       Concat(@, SubSeq(wire[c], 1, k))], c))
    /\ LET class == CutClass(sent[c], Len(Bytes(sent[c])) - Len(wire[c]) + k)
           n == CountFrames(Concat(buffer[c], SubSeq(wire[c], 1, k)))
       IN /\ cuts' = IF Observed(c) /\ class # "boundary" THEN cuts \cup {class}
                      ELSE cuts
          /\ burst' = (burst \/ (Observed(c) /\ n > 1))
    /\ UNCHANGED << sent, walk >>

\* The ways an awaited operation can end.
Outcomes(stage) ==
    IF stage = "chat" THEN {"reply", "patch", "error"} ELSE {"ok", "error"}

\* handleCommand from the completion of the operation it awaited to its next
\* await of I/O, or to its return.  A failed read of the project files is
\* caught by handleCommand's catch block; a successful one is cached as the
\* session of the path and the chat completion follows.
Continue(w, c, p, outcome) ==
    IF p.stage = "read"
    THEN IF outcome = "error"
         THEN [w |-> w, res |-> Result(FALSE, "ENOENT", FALSE), await |-> FALSE,
               threw |-> FALSE]
         ELSE LET projectPath == p.req.args.projectPath
                  contextText == readProjectFiles(w, projectPath)
                  w1 == [w EXCEPT !.sessions =
                            MapSet(@, projectPath, [filesText |-> contextText])]
              IN openaiChat(w1, c, p.req, contextText, TRUE)
    ELSE IF p.stage = "chat"
    THEN ChatReturns(w, p.req, ReplyOf(outcome))
    ELSE [w |-> w, res |-> Completed(p, outcome), await |-> FALSE, threw |-> FALSE]

\* The awaited I/O of a suspended handler completes: handleCommand goes on
\* to its next await, or it returns, the response is written and the loop
\* goes on.
Resume(c, p, outcome) ==
    /\ serverUp
    /\ p \in pending[c]
    /\ outcome \in Outcomes(p.stage)
    /\ LET w1 == [World EXCEPT !.pending[c] = @ \ {p}]
           h == Continue(w1, c, p, outcome)
       IN IF h.await
          THEN Apply([h.w EXCEPT !.pending[c] =
                         @ \cup {[req |-> p.req, res |-> h.res, stage |-> StageOf(h)]}])
          ELSE Apply(NextIteration(SocketWrite(h.w, c, Response(p.req.id, h.res)), c))
    /\ UNCHANGED << sent, wire, cuts, burst, walk >>

\* A file of the project is edited on disk, by the file commands of a client
\* or by another program.
FileChange ==
    /\ disk < MaxChanges
    /\ disk' = disk + 1
    /\ UNCHANGED << sent, wire, buffer, sock, out, pending, children, apiKey,
                    sessions, pendingPatches, serverUp, dispatched, badSeen, cuts,
                    burst, issued, log, walk >>

\* The stdout/stderr chunks the child processes have produced so far.
RECURSIVE SumEmitted(_)
SumEmitted(S) ==
    IF S = {} THEN 0
    ELSE LET ch == CHOOSE x \in S : TRUE IN ch.emitted + SumEmitted(S \ {ch})

Emitted == SumEmitted(children)

\* child.stdout.on('data') / child.stderr.on('data')
ChildData(ch, ev) ==
    /\ serverUp
    /\ ch \in children
    /\ ch.state = "running"
    /\ Emitted < MaxOut
    /\ LET w1 == [World EXCEPT !.children =
                     (@ \ {ch}) \cup {[ch EXCEPT !.emitted = @ + 1]}]
       IN Apply(SocketWrite(w1, ch.conn, DataEvent(ch.id, ev)))
    /\ UNCHANGED << sent, wire, cuts, burst, walk >>

\* child.on('close', code => ...): the process has ended and its streams are
\* closed.
ChildClose(ch, code) ==
    /\ serverUp
    /\ ch \in children
    /\ ch.state = "running"
    /\ LET w1 == [World EXCEPT !.children =
                     (@ \ {ch}) \cup {[ch EXCEPT !.state = "closed", !.code = code]}]
       IN Apply(SocketWrite(w1, ch.conn, ExitEvent(ch.id, code)))
    /\ UNCHANGED << sent, wire, cuts, burst, walk >>

\* The 'error' event of a child that could not be spawned.  The exec case
\* attaches no 'error' listener, so the emit throws and the uncaught
\* exception ends the process.
ChildError(ch) ==
    /\ serverUp
    /\ ch \in children
    /\ ch.state = "spawnfail"
    /\ children' = (children \ {ch}) \cup {[ch EXCEPT !.state = "errored"]}
    /\ serverUp' = FALSE
    /\ UNCHANGED << sent, wire, buffer, sock, out, pending, apiKey, sessions,
                    pendingPatches, dispatched, badSeen, cuts, burst, disk,
                    issued, log, walk >>

\* ------------------------------------------------------- readProjectFiles
\* The walk of readProjectFiles over a project tree, with texts measured in
\* bytes.  The tree is the sequence of its files in the order the walk meets
\* them; a `return` inside a nested walk makes every enclosing walk return
\* at its own check of the total, so nesting does not change what is
\* collected.  Ignored entries are left out of the tree.

\* `FILE: ${rel}\n\n${content}`: the bytes around rel and content.
FileLabelLen == 8

\* `BINARY_FILE: ${rel}`: the bytes before rel.
BinaryLabelLen == 13

\* parts.join('\n\n'): the bytes between two parts.
SepLen == 2

\* A file of the tree: a text file (its content is read) or a file with a
\* binary extension (only named); rel and size are lengths in bytes.
Entries ==
    { [kind |-> "text", rel |-> r, size |-> n] :
          r \in 1 .. MaxRelLen, n \in 0 .. MaxFileSize }
    \cup { [kind |-> "binary", rel |-> r, size |-> 0] : r \in 1 .. MaxRelLen }

RECURSIVE Trees(_)
Trees(n) ==
    IF n = 0 THEN { << >> }
    ELSE Trees(n - 1) \cup { Append(t, e) : t \in Trees(n - 1), e \in Entries }

RECURSIVE SumParts(_)
SumParts(parts) == IF parts = << >> THEN 0 ELSE Head(parts) + SumParts(Tail(parts))

\* The length of parts.join('\n\n').
JoinLen(parts) ==
    IF parts = << >> THEN 0 ELSE SumParts(parts) + SepLen * (Len(parts) - 1)

\* No call of readProjectFiles is being followed.
NoWalk ==
    [tree |-> << >>, limitBytes |-> 0, pos |-> 1, total |-> 0, parts |-> << >>,
     state |-> "idle", overflow |-> 0, text |-> 0]

\* let total = 0; const parts = []; await walk(root)
StartWalk(tree, limitBytes) ==
    [NoWalk EXCEPT !.tree = tree, !.limitBytes = limitBytes, !.state = "walking"]

\* The state of the server, which a walk does not touch.
serverVars ==
    << sent, wire, buffer, sock, out, pending, children, apiKey, sessions,
       pendingPatches, serverUp, dispatched, badSeen, cuts, burst, disk, issued,
       log >>

\* if (BINARY_EXTS.has(ext)) { parts.push(`BINARY_FILE: ${rel}`); continue; }
WalkBinary ==
    /\ walk.state = "walking" /\ walk.pos <= Len(walk.tree)
    /\ walk.tree[walk.pos].kind = "binary"
    /\ walk' = [walk EXCEPT
                   !.parts = Append(@, BinaryLabelLen + walk.tree[walk.pos].rel),
                   !.pos = @ + 1]
    /\ UNCHANGED serverVars

\* total += Buffer.byteLength(content); if (total > limitBytes) return;
\* parts.push(`FILE: ${rel}\n\n${content}`)
WalkText ==
    /\ walk.state = "walking" /\ walk.pos <= Len(walk.tree)
    /\ walk.tree[walk.pos].kind = "text"
    /\ LET ent == walk.tree[walk.pos]
           total == walk.total + ent.size
       IN walk' = IF total > walk.limitBytes
                  THEN [walk EXCEPT !.total = total, !.state = "stopped",
                                    !.overflow = ent.size]
                  ELSE [walk EXCEPT !.total = total,
                                    !.parts = Append(@, FileLabelLen + ent.rel + ent.size),
                                    !.pos = @ + 1]
    /\ UNCHANGED serverVars

\* return parts.join('\n\n'), after the walk has ended or stopped.
WalkReturn ==
    /\ \/ walk.state = "stopped"
       \/ walk.state = "walking" /\ walk.pos > Len(walk.tree)
    /\ walk' = [walk EXCEPT !.state = "returned", !.text = JoinLen(walk.parts)]
    /\ UNCHANGED serverVars

\* --------------------------------------------------------------------- Init

\* The streams of exactly n frames a client can send.
RECURSIVE Streams(_)
Streams(n) ==
    IF n = 0 THEN { << >> }
    ELSE { Append(s, p) : s \in Streams(n - 1), p \in Payloads(n) }

\* The ways to give each connection of S a stream, k frames in all at most.
RECURSIVE Workloads(_, _)
Workloads(S, k) ==
    IF S = {} THEN { EmptyMap }
    ELSE LET c == CHOOSE x \in S : TRUE IN
         UNION { { (c :> s) @@ f : f \in Workloads(S \ {c}, k - Len(s)) } :
                 s \in UNION { Streams(n) : n \in 0 .. k } }

ExitCodes == {0, 1}

Init ==
    /\ sent \in Workloads(Conns, MaxFrames)
    /\ Len(sent["A"]) >= Len(sent["B"])
    /\ wire = [c \in Conns |-> Bytes(sent[c])]
    /\ buffer = [c \in Conns |-> << >>]
    /\ sock = [c \in Conns |-> "open"]
    /\ out = [c \in Conns |-> << >>]
    /\ pending = [c \in Conns |-> {}]
    /\ children = {}
    /\ apiKey = Null
    /\ sessions = EmptyMap
    /\ pendingPatches = EmptyMap
    /\ serverUp = TRUE
    /\ dispatched = [c \in Conns |-> << >>]
    /\ badSeen = [c \in Conns |-> 0]
    /\ cuts = {}
    /\ burst = FALSE
    /\ disk = 0
    /\ issued = 0
    /\ log = << >>
    /\ walk = NoWalk

Next ==
    \/ \E c \in Conns : \E k \in 1 .. Len(wire[c]) : DataArrives(c, k)
    \/ \E c \in Conns : \E p \in pending[c] : \E o \in {"ok", "error"} : Resume(c, p, o)
    \/ \E ch \in children : \E ev \in {"stdout", "stderr"} : ChildData(ch, ev)
    \/ \E ch \in children : \E code \in ExitCodes : ChildClose(ch, code)
    \/ \E ch \in children : ChildError(ch)

Spec == Init /\ [][Next]_vars

\* The AI scenarios.  In each the clients send requests of one family of
\* commands, each frame arrives as one chunk, and the server was started
\* with or without OPENAI_API_KEY in its environment:
\*   chat      aiChat with and without newSession, and setApiKey
\*   patch     aiChat and aiApprove with apply false and true, key set
\*   key       setApiKey with, without and with an empty key, and aiStatus
Scenarios ==
    { [menu |-> {6, 7, 8}, keys |-> {Null, "env"}],
      [menu |-> {7, 9, 10}, keys |-> {"env"}],
      [menu |-> {6, 11, 12, 13}, keys |-> {Null, "env"}] }

RECURSIVE AiStreams(_, _)
AiStreams(n, menu) ==
    IF n = 0 THEN { << >> }
    ELSE { Append(s, p) : s \in AiStreams(n - 1, menu), p \in AiPayloads(n, menu) }

RECURSIVE AiWorkloads(_, _, _)
AiWorkloads(S, k, menu) ==
    IF S = {} THEN { EmptyMap }
    ELSE LET c == CHOOSE x \in S : TRUE IN
         UNION { { (c :> s) @@ f : f \in AiWorkloads(S \ {c}, k - Len(s), menu) } :
                 s \in UNION { AiStreams(n, menu) : n \in 0 .. k } }

InitAI ==
    /\ \E sc \in Scenarios :
          /\ sent \in AiWorkloads(Conns, MaxAiFrames, sc.menu)
          /\ apiKey \in sc.keys
    /\ Len(sent["A"]) >= Len(sent["B"])
    /\ wire = [c \in Conns |-> Bytes(sent[c])]
    /\ buffer = [c \in Conns |-> << >>]
    /\ sock = [c \in Conns |-> "open"]
    /\ out = [c \in Conns |-> << >>]
    /\ pending = [c \in Conns |-> {}]
    /\ children = {}
    /\ sessions = EmptyMap
    /\ pendingPatches = EmptyMap
    /\ serverUp = TRUE
    /\ dispatched = [c \in Conns |-> << >>]
    /\ badSeen = [c \in Conns |-> 0]
    /\ cuts = {}
    /\ burst = FALSE
    /\ disk = 0
    /\ issued = 0
    /\ log = << >>
    /\ walk = NoWalk

NextAI ==
    \/ \E c \in Conns :
          /\ Len(wire[c]) >= PrefixLen
          /\ DataArrives(c, PrefixLen + readUInt32LE(wire[c]))
    \/ \E c \in Conns : \E p \in pending[c] : \E o \in Outcomes(p.stage) :
          Resume(c, p, o)
    \/ FileChange

SpecAI == InitAI /\ [][NextAI]_vars

\* readProjectFiles on its own: every tree and budget of the bounds.
InitWalk ==
    /\ sent = [c \in Conns |-> << >>]
    /\ wire = [c \in Conns |-> << >>]
    /\ buffer = [c \in Conns |-> << >>]
    /\ sock = [c \in Conns |-> "open"]
    /\ out = [c \in Conns |-> << >>]
    /\ pending = [c \in Conns |-> {}]
    /\ children = {}
    /\ apiKey = Null
    /\ sessions = EmptyMap
    /\ pendingPatches = EmptyMap
    /\ serverUp = TRUE
    /\ dispatched = [c \in Conns |-> << >>]
    /\ badSeen = [c \in Conns |-> 0]
    /\ cuts = {}
    /\ burst = FALSE
    /\ disk = 0
    /\ issued = 0
    /\ log = << >>
    /\ \E tree \in Trees(MaxEntries) : \E limitBytes \in 0 .. MaxLimit :
          walk = StartWalk(tree, limitBytes)

NextWalk == WalkBinary \/ WalkText \/ WalkReturn

SpecWalk == InitWalk /\ [][NextWalk]_vars

\* ------------------------------------------------------------------ claims

\* The requests the frames of connection c's stream decode to.
Expected(c) == [i \in 1 .. Len(sent[c]) |-> JSONparse(sent[c][i])]

\* Every frame of c's stream carries a request object.
ValidStream(c) == \A i \in 1 .. Len(sent[c]) : Expected(c)[i].type = "object"

\* The handler of the i-th call of handleCommand on c has returned.
Returned(c, i) == \A p \in pending[c] : p.req # dispatched[c][i].req

\* The positions of out[c] that hold a Response with this id.
ResponsesTo(c, id) ==
    { j \in 1 .. Len(out[c]) : out[c][j].event = "response" /\ out[c][j].id = id }

\* The positions of out[c] that hold a StreamEvent with this id.
EventsOf(c, id) ==
    { j \in 1 .. Len(out[c]) : out[c][j].event # "response" /\ out[c][j].id = id }

\* The handler table of handleCommand's switch.
Commands ==
    { "readFile", "writeFile", "listDir", "listDirs", "createDir", "deleteFile",
      "deleteDir", "isDir", "rename", "exec", "aiChat", "setApiKey", "aiStatus",
      "aiApprove" }

\* C1: for a stream of valid frames, however it is cut into chunks, the
\* requests dispatched so far are the first frames of the stream, in order and
\* each once; once the whole stream has arrived and every handler has
\* returned, they are all the frames of the stream.
C1_FramesDispatchedInOrder ==
    \A c \in Conns :
        ValidStream(c) =>
            /\ Len(dispatched[c]) <= Len(sent[c])
            /\ \A i \in 1 .. Len(dispatched[c]) : dispatched[c][i].req = Expected(c)[i]
            /\ (serverUp /\ wire[c] = << >> /\ pending[c] = {})
                  => Len(dispatched[c]) = Len(sent[c])

\* C1 witness: the only stream sent, two valid frames, was cut inside a
\* length prefix and inside a payload, and its two requests were dispatched.
C1_Witness ==
    \E c \in Conns :
        /\ ValidStream(c) /\ Len(sent[c]) = 2
        /\ \A d \in Conns \ {c} : sent[d] = << >>
        /\ cuts = {"prefix", "payload"}
        /\ Len(dispatched[c]) = 2
        /\ dispatched[c][1].req = Expected(c)[1]
        /\ dispatched[c][2].req = Expected(c)[2]

\* The position in c's stream of its first frame that is not JSON (past the
\* end of the stream when there is none).
FirstMalformed(c) ==
    IF \E i \in 1 .. Len(sent[c]) : Expected(c)[i].type = "SyntaxError"
    THEN CHOOSE i \in 1 .. Len(sent[c]) :
            /\ Expected(c)[i].type = "SyntaxError"
            /\ \A k \in 1 .. i - 1 : Expected(c)[k].type # "SyntaxError"
    ELSE Len(sent[c]) + 1

\* C2: every request object that arrived before any malformed frame of its
\* connection and whose handler has returned has exactly one Response on
\* that connection, with the request's id.
C2_OneResponsePerRequest ==
    \A c \in Conns : \A i \in 1 .. Len(dispatched[c]) :
        LET r == dispatched[c][i].req IN
        (r.type = "object" /\ r.id < FirstMalformed(c) /\ Returned(c, i))
            => Cardinality(ResponsesTo(c, r.id)) = 1

\* The buffer holds a complete frame.
HasCompleteFrame(buf) == CountFrames(buf) > 0

\* C3: when no handler of a connection is suspended, no frame of it was
\* malformed and the server runs, every complete frame has been taken off the
\* buffer, dispatched and answered: only an incomplete frame stays buffered.
C3_AllCompleteFramesProcessed ==
    \A c \in Conns :
        (serverUp /\ pending[c] = {} /\ badSeen[c] = 0) =>
            /\ ~HasCompleteFrame(buffer[c])
            /\ \A i \in 1 .. Len(dispatched[c]) :
                   ResponsesTo(c, dispatched[c][i].req.id) # {}

\* C3 witness: on the only connection in use one chunk left two complete
\* frames buffered, the first one's handler awaited I/O, and both requests
\* were dispatched and answered.
C3_Witness ==
    \E c \in Conns :
        /\ burst /\ pending[c] = {} /\ serverUp /\ badSeen[c] = 0
        /\ \A d \in Conns \ {c} : sent[d] = << >>
        /\ Len(dispatched[c]) = 2
        /\ dispatched[c][1].req.cmd = "readFile"
        /\ ResponsesTo(c, 1) # {} /\ ResponsesTo(c, 2) # {}

\* C4: once a frame with a payload that is not JSON has been processed, the
\* fatal Response {id: null, ok: false, data: "Invalid JSON"} is on the
\* connection, once, and the connection is closed.
C4_MalformedClosesConnection ==
    \A c \in Conns :
        badSeen[c] > 0 =>
            /\ sock[c] # "open"
            /\ Cardinality({ j \in 1 .. Len(out[c]) : out[c][j] = FatalResponse }) = 1

\* C4 witness: a malformed frame that followed an answered request was
\* answered by the fatal Response and the socket was ended.
C4_Witness ==
    \E c \in Conns :
        /\ badSeen[c] = 1 /\ sock[c] = "ended"
        /\ Len(out[c]) = 2 /\ out[c][1].id = 1 /\ out[c][2] = FatalResponse

\* C5: as long as no frame failed JSON decoding, the server runs, every
\* connection is open, and every request whose handler is not suspended has
\* a Response.
C5_OnlyDecodeFailureIsFatal ==
    (\A d \in Conns : badSeen[d] = 0) =>
        /\ serverUp
        /\ \A c \in Conns :
              /\ sock[c] = "open"
              /\ \A i \in 1 .. Len(dispatched[c]) :
                    Returned(c, i) => ResponsesTo(c, dispatched[c][i].req.id) # {}

\* C6: a request with a cmd outside the handler table changes no session,
\* patch or API-key state and does not close the connection; every Response
\* with its id has ok:false, and on an open connection there is exactly one.
C6_UnknownCommand ==
    \A c \in Conns : \A i \in 1 .. Len(dispatched[c]) :
        LET e == dispatched[c][i] IN
        (e.req.type = "object" /\ e.req.cmd \notin Commands) =>
            /\ ~e.changed
            /\ ~e.closed
            /\ \A j \in ResponsesTo(c, e.req.id) :
                   out[c][j] = Response(e.req.id, Result(FALSE, "Unknown command", FALSE))
            /\ sock[c] = "open" => Cardinality(ResponsesTo(c, e.req.id)) = 1

\* C6 witness: an unknown command was answered after a setApiKey had stored
\* a key, and the key is still stored and the connection open.
C6_Witness ==
    \E c \in Conns :
        /\ Len(dispatched[c]) = 2
        /\ dispatched[c][1].req.cmd = "setApiKey" /\ dispatched[c][1].changed
        /\ dispatched[c][2].req.cmd = "bogus"
        /\ apiKey = "k" /\ sock[c] = "open"
        /\ Len(out[c]) = 2 /\ out[c][2].id = 2 /\ ~out[c][2].ok

\* { ok: true, started: true } with the request's id.
Ack(id) == Response(id, Result(TRUE, Undef, TRUE))

\* C7: every stdout, stderr or exit StreamEvent on a connection comes after
\* the acknowledgment {id, ok:true, started:true} with the same id.
C7_AckBeforeEvents ==
    \A c \in Conns : \A j \in 1 .. Len(out[c]) :
        out[c][j].event # "response" =>
            \E i \in 1 .. j - 1 : out[c][i] = Ack(out[c][j].id)

\* C7 witness: acknowledgment, a stdout event and the exit event of one exec.
C7_Witness ==
    \E c \in Conns :
        /\ Len(out[c]) = 3 /\ out[c][1] = Ack(1)
        /\ out[c][2] = DataEvent(1, "stdout") /\ out[c][3].event = "exit"
        /\ out[c][3].id = 1

\* The positions of out[c] that hold the exit event of this id.
ExitsOf(c, id) == { j \in EventsOf(c, id) : out[c][j].event = "exit" }

\* C8 as stated: every process that has closed has exactly one exit event
\* on its connection, with its exit code, and no event of its id after it.
C8_ExitAlwaysWritten ==
    \A ch \in children :
        ch.state = "closed" =>
            /\ Cardinality(ExitsOf(ch.conn, ch.id)) = 1
            /\ \A j \in ExitsOf(ch.conn, ch.id) :
                  /\ out[ch.conn][j].code = ch.code
                  /\ \A k \in EventsOf(ch.conn, ch.id) : k <= j

\* C8 amended: a process has at most one exit event, written only once it
\* has closed, with its exit code and with no event of its id after it; it
\* has exactly one when its connection is still open.
C8_ExitOnceAndTerminal ==
    \A ch \in children :
        /\ Cardinality(ExitsOf(ch.conn, ch.id)) <= 1
        /\ \A j \in ExitsOf(ch.conn, ch.id) :
              /\ ch.state = "closed"
              /\ out[ch.conn][j].code = ch.code
              /\ \A k \in EventsOf(ch.conn, ch.id) : k <= j
        /\ (ch.state = "closed" /\ sock[ch.conn] = "open")
              => Cardinality(ExitsOf(ch.conn, ch.id)) = 1

\* C8 witness: a process that wrote output and closed with code 1 on an open
\* connection; its exit event is the last event of its id.
C8_Witness ==
    \E ch \in children :
        /\ ch.state = "closed" /\ ch.code = 1 /\ ch.emitted = 1
        /\ sock[ch.conn] = "open"
        /\ \E j \in ExitsOf(ch.conn, ch.id) :
              out[ch.conn][j].code = 1 /\ j = Len(out[ch.conn])

\* C9: an exec request without a command spawns no process, has no
\* StreamEvent with its id, and every Response to it has ok:false; on an
\* open connection there is exactly one.
C9_ExecWithoutCommand ==
    \A c \in Conns : \A i \in 1 .. Len(dispatched[c]) :
        LET r == dispatched[c][i].req IN
        (r.type = "object" /\ r.cmd = "exec" /\ r.args.command \in {Undef, ""}) =>
            /\ \A ch \in children : ~(ch.conn = c /\ ch.id = r.id)
            /\ EventsOf(c, r.id) = {}
            /\ \A j \in ResponsesTo(c, r.id) : ~out[c][j].ok
            /\ sock[c] = "open" => Cardinality(ResponsesTo(c, r.id)) = 1

\* C9 witness: an exec without a command was refused while a process of an
\* earlier exec on the same connection streams its events.
C9_Witness ==
    \E c \in Conns :
        /\ Len(dispatched[c]) = 2
        /\ dispatched[c][2].req.cmd = "exec"
        /\ dispatched[c][2].req.args.command = Undef
        /\ \E j \in ResponsesTo(c, 2) : ~out[c][j].ok
        /\ EventsOf(c, 1) # {}

\* C10: once the spawn of an acknowledged exec has failed, the server still
\* runs and an exit event with the request's id and a non-zero code is on
\* the connection.
C10_SpawnFailureSurfaces ==
    \A ch \in children :
        ch.state = "errored" =>
            /\ serverUp
            /\ \E j \in ExitsOf(ch.conn, ch.id) : out[ch.conn][j].code # 0

\* C15: once a malformed frame of a connection has been answered by the
\* fatal Response, only the frames that came before it have been dispatched,
\* and the fatal Response is the last message written on the connection.
C15_NothingAfterFatal ==
    \A c \in Conns :
        badSeen[c] > 0 =>
            /\ Len(dispatched[c]) < FirstMalformed(c)
            /\ \A j \in 1 .. Len(out[c]) : out[c][j] = FatalResponse => j = Len(out[c])

\* C16: on one connection at most one handler is suspended in an await at
\* any time, so that no handler starts before the earlier ones returned.
C16_OneHandlerAtATime ==
    \A c \in Conns : Cardinality(pending[c]) <= 1

\* Connection c has a handler suspended in an await or a child process
\* running.
Busy(c) ==
    \/ pending[c] # {}
    \/ \E ch \in children : ch.conn = c /\ ch.state = "running"

\* The bytes buffered for c and those still to arrive are the rest of the
\* stream c's own client sent.
OwnBytesOnly(c) ==
    LET all == Bytes(sent[c])
        rest == buffer[c] \o wire[c]
    IN /\ Len(rest) <= Len(all)
       /\ rest = SubSeq(all, Len(all) - Len(rest) + 1, Len(all))

\* Every complete frame of c has been taken off the buffer, dispatched and
\* answered, unless a handler of c itself is suspended or c saw a malformed
\* frame.
Served(c) ==
    (serverUp /\ pending[c] = {} /\ badSeen[c] = 0) =>
        LET own == { JSONparse(sent[c][k]) : k \in 1 .. Len(sent[c]) } IN
        /\ ~HasCompleteFrame(buffer[c])
        /\ \A i \in 1 .. Len(dispatched[c]) :
               /\ dispatched[c][i].req \in own
               /\ ResponsesTo(c, dispatched[c][i].req.id) # {}

\* C18: the buffer of a connection only ever holds bytes of its own stream,
\* and while another connection has a suspended handler or a running
\* process, the chunks that have arrived on a connection are decoded,
\* dispatched and answered.
C18_ConnectionsIndependent ==
    \A c \in Conns :
        /\ OwnBytesOnly(c)
        /\ \A o \in Conns \ {c} : Busy(o) => Served(c)

\* C18 witness: one connection's only request is suspended in its await and
\* the other connection's only request has its Response.
C18_Witness ==
    \E a \in Conns : \E b \in Conns \ {a} :
        /\ Len(sent[a]) = 1 /\ Len(sent[b]) = 1
        /\ Cardinality(pending[a]) = 1 /\ out[a] = << >>
        /\ wire[b] = << >> /\ buffer[b] = << >> /\ Len(dispatched[b]) = 1
        /\ Cardinality(ResponsesTo(b, 1)) = 1

\* The positions of the log that hold an event of this kind.
Events(kind) == { i \in 1 .. Len(log) : log[i].kind = kind }

\* { ok: false, data: 'Unknown patchId' }
UnknownPatch == Result(FALSE, "Unknown patchId", FALSE)

\* C11 as stated: aiChat rebuilds only when newSession is set or no Session
\* exists, and any two aiChat calls with newSession unset send the same
\* context.
C11_SameContextWithoutNewSession ==
    /\ \A i \in Events("call") :
           log[i].rebuilds => (log[i].newSession \/ ~log[i].hadSession)
    /\ \A i \in Events("chat") : \A j \in Events("chat") :
           (~log[i].newSession /\ ~log[j].newSession)
               => log[i].context = log[j].context

\* C11, amended: aiChat rebuilds exactly when newSession is set or no Session
\* exists at the call; a rebuilt context is the text of the files on disk
\* when the read completes, and it is what the Session then holds; every
\* other call sends the context of the latest rebuild before it, whatever
\* has changed on disk since.
C11_CachedContextReused ==
    /\ \A i \in Events("call") :
           log[i].rebuilds <=> (log[i].newSession \/ ~log[i].hadSession)
    /\ \A j \in Events("chat") :
           IF log[j].rebuilt
           THEN log[j].context = Texts[log[j].disk + 1]
           ELSE \E i \in Events("chat") :
                   /\ i < j /\ log[i].rebuilt
                   /\ \A k \in Events("chat") : (i < k /\ k < j) => ~log[k].rebuilt
                   /\ log[j].context = log[i].context
    /\ \A j \in Events("chat") :
           (\A k \in Events("chat") : k > j => ~log[k].rebuilt) =>
               /\ "P" \in DOMAIN sessions
               /\ sessions["P"].filesText = log[j].context

\* C11 witness: a call without newSession built the Session, the files
\* changed on disk, and a second call without newSession sent the same
\* context as the first.
C11_Witness ==
    \E i \in Events("chat") : \E j \in Events("chat") :
        /\ i < j
        /\ ~log[i].newSession /\ log[i].rebuilt
        /\ ~log[j].newSession /\ ~log[j].rebuilt
        /\ log[j].disk # log[i].disk
        /\ log[j].context = log[i].context
        /\ log[j].context # Texts[log[j].disk + 1]

\* C12: a successful aiApprove is a discard of a registered patch and takes
\* it out of the registry; every later aiApprove with that patchId, with
\* apply true or false, returns the unknown-patch error, and so does an
\* aiApprove for an id that is not registered.
C12_DiscardRemovesPatch ==
    \A i \in Events("approve") :
        /\ log[i].res.ok =>
              /\ ~log[i].apply
              /\ log[i].patchId \in DOMAIN log[i].before
              /\ log[i].patchId \notin DOMAIN log[i].after
              /\ \A j \in Events("approve") :
                     (j > i /\ log[j].patchId = log[i].patchId)
                         => log[j].res = UnknownPatch
        /\ log[i].patchId \notin DOMAIN log[i].before => log[i].res = UnknownPatch
        /\ (log[i].res.ok /\ i = Len(log)) => log[i].patchId \notin DOMAIN pendingPatches

\* C12 witness: a patch was discarded and a later aiApprove with apply:true
\* for it got the unknown-patch error.
C12_Witness ==
    \E i \in Events("approve") : \E j \in Events("approve") :
        /\ i < j /\ log[i].patchId = log[j].patchId
        /\ log[i].res.ok /\ log[j].apply /\ log[j].res = UnknownPatch

\* C13: aiApprove with apply:true on a pending patch returns ok:false, leaves
\* the registry as it was, with the patch's projectPath and diff, and writes
\* no file; the next discard of that patch succeeds.
C13_ApplyChangesNothing ==
    \A i \in Events("approve") :
        (log[i].apply /\ log[i].patchId \in DOMAIN log[i].before) =>
            /\ log[i].res = Result(FALSE, "Auto-apply not implemented yet", FALSE)
            /\ log[i].after = log[i].before
            /\ ~log[i].written
            /\ \A j \in Events("approve") :
                   ( /\ j > i /\ log[j].patchId = log[i].patchId /\ ~log[j].apply
                     /\ \A k \in Events("approve") :
                            (i < k /\ k < j /\ log[k].patchId = log[i].patchId)
                                => log[k].apply )
                       => log[j].res.ok

\* C13 witness: apply:true was refused for a pending patch and a later
\* discard of it succeeded.
C13_Witness ==
    \E i \in Events("approve") : \E j \in Events("approve") :
        /\ i < j /\ log[i].patchId = log[j].patchId
        /\ log[i].apply /\ log[i].patchId \in DOMAIN log[i].before
        /\ ~log[i].res.ok
        /\ ~log[j].apply /\ log[j].res.ok

\* C17: whatever the order of the aiApprove requests of the connections, a
\* request is answered by the unknown-patch error exactly when the patch is
\* not registered, at most one discard of a patch succeeds, every request
\* after it gets the unknown-patch error, and the registered identifiers are
\* among those issued.
C17_ApproveAtomic ==
    /\ \A i \in Events("approve") :
           /\ (log[i].res = UnknownPatch) <=> (log[i].patchId \notin DOMAIN log[i].before)
           /\ \A j \in Events("approve") :
                  (i < j /\ log[i].patchId = log[j].patchId /\ log[i].res.ok)
                      => ~log[j].res.ok /\ log[j].res = UnknownPatch
    /\ \A id \in { UUIDs[k] : k \in 1 .. Len(UUIDs) } :
           Cardinality({ i \in Events("approve") :
                            log[i].patchId = id /\ log[i].res.ok }) <= 1
    /\ DOMAIN pendingPatches \subseteq { UUIDs[k] : k \in 1 .. issued }

\* C17 witness: two connections sent a discard of the same pending patch;
\* the first one served succeeded and the other got the unknown-patch error.
C17_Witness ==
    \E i \in Events("approve") : \E j \in Events("approve") :
        /\ i < j /\ log[i].conn # log[j].conn
        /\ log[i].patchId = log[j].patchId
        /\ ~log[i].apply /\ log[i].res.ok
        /\ ~log[j].apply /\ log[j].res = UnknownPatch

\* C19: the Response of an aiChat whose chat-completion call failed has
\* ok:false.
C19_ServiceFailureReported ==
    \A c \in Conns : \A j \in 1 .. Len(out[c]) :
        (out[c][j].event = "response" /\ out[c][j].data = ServiceErrorReply)
            => ~out[c][j].ok

\* C20: setApiKey without a key or with an empty one is refused and changes
\* nothing; setApiKey with a key stores it; and once aiStatus has reported
\* hasKey:true, every later aiStatus reports hasKey:true.
C20_KeyMonotone ==
    /\ \A i \in Events("status") : \A j \in Events("status") :
           (i < j /\ log[i].hasKey) => log[j].hasKey
    /\ \A i \in Events("status") :
           (log[i].hasKey /\ i = Len(log)) => hasApiKey(World)
    /\ \A c \in Conns : \A i \in 1 .. Len(dispatched[c]) :
           LET e == dispatched[c][i] IN
           e.req.cmd = "setApiKey" =>
               IF e.req.args.key \in {Undef, ""}
               THEN /\ ~e.changed
                    /\ \A j \in ResponsesTo(c, e.req.id) :
                           out[c][j] = Response(e.req.id,
                                                Result(FALSE, "key is required", FALSE))
               ELSE /\ apiKey = e.req.args.key
                    /\ \A j \in ResponsesTo(c, e.req.id) : out[c][j].ok

\* C20 witness: aiStatus reported hasKey:true, a setApiKey with an empty key
\* was refused, and aiStatus reported hasKey:true again.
C20_Witness ==
    \E c \in Conns :
        /\ Len(out[c]) = 3
        /\ out[c][1].data = "hasKey:true"
        /\ dispatched[c][2].req.cmd = "setApiKey" /\ dispatched[c][2].req.args.key = ""
        /\ ~out[c][2].ok
        /\ out[c][3].data = "hasKey:true"

\* C14: the text readProjectFiles returns is no longer than the byte budget
\* plus the size of the file that made the total exceed it (nothing, when no
\* file did).
C14_BoundedOvershoot ==
    walk.state = "returned" => walk.text <= walk.limitBytes + walk.overflow

====
